---- MODULE Spec2Model ----
(***************************************************************************)
(* Model of the vocal-couch real-time pitch tracking core:                 *)
(*   - MicrophoneAnalyzer (src/src/components/ResultsDisplay.tsx 115-429): *)
(*     capture lifecycle (initializeMicrophone / startAnalysis /           *)
(*     stopAnalysis / releaseMicrophone / lifecycle effect) and the 80 ms  *)
(*     analysis tick (target note tracker, deviation, note-hit guard,      *)
(*     throttled snapshot and history channels);                           *)
(*   - PitchDetector.initialize / cleanup (src/src/utils/pitchDetection.ts)*)
(*   - App state driving the analyzer (src/src/App.tsx): isPlaying,        *)
(*     isMuted, currentTimeRef, transpositionSemitones;                    *)
(*   - musicUtils: transposeNote, isOctaveEquivalent, getMidiNoteNameOnly. *)
(*                                                                         *)
(* Conventions.  Playback time is counted in whole seconds.  Wall-clock    *)
(* time (Date.now) is counted in milliseconds.  A frequency f is carried   *)
(* as its pitch in cents, 100 * (69 + 12*log2(f/440)), so that             *)
(* midiToFrequency(p) is 100*p and 1200*log2(f2/f1) is a difference.       *)
(* A null reference is the string "null".                                  *)
(***************************************************************************)
EXTENDS Integers, Sequences, FiniteSets, TLC

\* ---------------------------------------------------------------- bounds
\* Largest |transposition| the model explores (the program clamps at 12).
MaxShift == 1
\* Number of analysis ticks explored (wall clock runs to Epoch + MaxTicks*80).
MaxTicks == 3
\* How late the interval callback may fire, in ms (less than one period).
MaxLate == 50
\* Date.now() at mount, in ms (any value above the throttle periods).
Epoch == 1000

\* ------------------------------------------------------ program constants
MaxAttempts == 3
RetryDelayMs == 100
TickMs == 80
UI_UPDATE_MS == 66
HISTORY_FLUSH_MS == 100
MaxTransposition == 12
MinTransposition == -12
OnPitchCents == 50
OctaveCents == 1200
HalfOctaveCents == 600
SongTailSec == 2

Null == "null"

Min(a, b) == IF a < b THEN a ELSE b
Max(a, b) == IF a > b THEN a ELSE b
Abs(a) == IF a < 0 THEN -a ELSE a

\* JavaScript's % : the remainder takes the sign of the dividend.
JsRem(a, n) == IF a >= 0 THEN a % n ELSE -((-a) % n)

\* Math.round on a value given in hundredths: floor(x + 0.5).
RoundCents(c) == (c + 50) \div 100

\* ------------------------------------------------------------- musicUtils
\* midiToFrequency, in cents.
midiToFrequency(midiNote) == 100 * midiNote

\* frequencyToMidi, from cents.
frequencyToMidi(cents) == RoundCents(cents)

NoteNames == <<"C", "C#", "D", "D#", "E", "F", "F#", "G", "G#", "A", "A#", "B">>

\* noteNames[midiNote % 12]; a negative index reads undefined.
getMidiNoteNameOnly(midiNote) ==
  LET noteIndex == JsRem(midiNote, 12)
  IN IF noteIndex >= 0 THEN NoteNames[noteIndex + 1] ELSE "undefined"

isOctaveEquivalent(midi1, midi2) == JsRem(midi1, 12) = JsRem(midi2, 12)

\* transposeNote with `pitch: note.pitch`: the shift reaches the frequency only.
transposeNoteUnshifted(note, semitones) ==
  [note EXCEPT !.frequency = midiToFrequency(note.pitch + semitones),
               !.name = getMidiNoteNameOnly(note.pitch + semitones)]

transposeNote(note, semitones) ==
  LET transposedPitch == note.pitch + semitones
  IN [note EXCEPT !.pitch = transposedPitch,
                  !.frequency = midiToFrequency(transposedPitch),
                  !.name = getMidiNoteNameOnly(transposedPitch)]

MkNote(id, time, duration, pitch) ==
  [id |-> id, time |-> time, duration |-> duration, pitch |-> pitch,
   name |-> getMidiNoteNameOnly(pitch), frequency |-> midiToFrequency(pitch),
   velocity |-> 80, lyric |-> id]

\* ------------------------------------------------------------------ state
VARIABLES
  \* App.tsx state and refs
  isPlaying,               \* timeline.isPlaying
  microphone,              \* MicrophoneState (App.tsx 49-68)
  currentTimeRef,          \* playback clock, seconds
  transpositionSemitones,  \* App.tsx 121
  mounted,                 \* the MicrophoneAnalyzer component is mounted
  \* MicrophoneAnalyzer refs (ResultsDisplay.tsx 153-163)
  pitchDetectorRef,        \* TRUE: the ref holds the session's PitchDetector
  analysisIntervalRef,     \* TRUE: the 80 ms interval is registered
  isInitializingRef,
  lastUIUpdateTsRef,
  historyBufferRef,
  lastHistoryFlushTsRef,
  currentNoteIndexRef,
  lastHitNoteIdRef,
  \* the host's timers: how many intervals are registered, and the nominal
  \* time at which the interval of analysisIntervalRef fires next
  timers,
  timerDue,
  \* the transpositionSemitones captured by the memoized startAnalysis closure
  closureSemitones,
  \* the PitchDetector instance of the current/last acquisition session
  detector,
  \* the async initializeMicrophone run: where it is suspended
  initPc,                  \* idle | getUserMedia | resume | retryDelay | succeeded | failed
  attempt,                 \* loop variable of the retry loop
  attemptErrors,           \* errors thrown by detector.initialize() this session
  waits,                   \* setTimeout delays awaited this session
  acquiring,               \* initializeMicrophone runs that have not settled
  \* wall clock and the outcome of the latest tick
  now,
  lastTick,
  \* observers of the note-hit stream
  occupancy,
  visit,
  \* observer of the output channels (snapshots, history flushes)
  sink,
  \* a pure function applied to drawn arguments: the arguments and the result
  probe,
  result

appVars == <<isPlaying, microphone, currentTimeRef, transpositionSemitones, mounted>>
refVars == <<pitchDetectorRef, analysisIntervalRef, isInitializingRef,
             lastUIUpdateTsRef, historyBufferRef, lastHistoryFlushTsRef,
             currentNoteIndexRef, lastHitNoteIdRef, timers, timerDue>>
initVars == <<detector, initPc, attempt, attemptErrors, waits, acquiring>>
tickVars == <<now, lastTick, occupancy, visit, sink>>
fnVars == <<probe, result>>
vars == <<appVars, refVars, closureSemitones, initVars, tickVars, fnVars>>

\* ------------------------------------------------------------ the song
\* currentSong.notes: ordered by start time; "a" and "b" share the boundary 2.
SongNotes == << MkNote("a", 1, 1, 60), MkNote("b", 2, 1, 61) >>
NoteIds == {SongNotes[i].id : i \in 1..Len(SongNotes)}

\* calculateSongDuration (App.tsx 154-160): ceil(lastEnd + 2); 60 for no notes.
RECURSIVE LastEnd(_, _)
LastEnd(notes, i) ==
  IF i = 0 THEN 0
  ELSE Max(notes[i].time + notes[i].duration, LastEnd(notes, i - 1))
calculateSongDuration(notes) ==
  IF Len(notes) = 0 THEN 60 ELSE LastEnd(notes, Len(notes)) + SongTailSec
actualSongDuration == calculateSongDuration(SongNotes)

\* ------------------------------------------- the analyzer as one record
\* The refs and the session state a handler reads and writes; handlers are
\* functions on this record so that one handler can call another.
Analyzer ==
  [ microphone |-> microphone,
    pitchDetectorRef |-> pitchDetectorRef,
    analysisIntervalRef |-> analysisIntervalRef,
    isInitializingRef |-> isInitializingRef,
    lastUIUpdateTsRef |-> lastUIUpdateTsRef,
    historyBufferRef |-> historyBufferRef,
    lastHistoryFlushTsRef |-> lastHistoryFlushTsRef,
    currentNoteIndexRef |-> currentNoteIndexRef,
    lastHitNoteIdRef |-> lastHitNoteIdRef,
    timers |-> timers,
    timerDue |-> timerDue,
    detector |-> detector,
    initPc |-> initPc,
    attempt |-> attempt,
    attemptErrors |-> attemptErrors,
    waits |-> waits,
    acquiring |-> acquiring ]

Commit(a) ==
  /\ microphone' = a.microphone
  /\ pitchDetectorRef' = a.pitchDetectorRef
  /\ analysisIntervalRef' = a.analysisIntervalRef
  /\ isInitializingRef' = a.isInitializingRef
  /\ lastUIUpdateTsRef' = a.lastUIUpdateTsRef
  /\ historyBufferRef' = a.historyBufferRef
  /\ lastHistoryFlushTsRef' = a.lastHistoryFlushTsRef
  /\ currentNoteIndexRef' = a.currentNoteIndexRef
  /\ lastHitNoteIdRef' = a.lastHitNoteIdRef
  /\ timers' = a.timers
  /\ timerDue' = a.timerDue
  /\ detector' = a.detector
  /\ initPc' = a.initPc
  /\ attempt' = a.attempt
  /\ attemptErrors' = a.attemptErrors
  /\ waits' = a.waits
  /\ acquiring' = a.acquiring

\* handleMicrophoneStateChange (App.tsx 183-185): prev merged with changes.
onMicrophoneStateChange(a, changes) ==
  [a EXCEPT !.microphone =
     [k \in DOMAIN @ |-> IF k \in DOMAIN changes THEN changes[k] ELSE @[k]]]

\* ------------------------------------------------------- PitchDetector
NewDetector == [microphone |-> FALSE, audioContext |-> FALSE, isInitialized |-> FALSE]

\* cleanup that closes the context but leaves the stream's tracks running.
cleanupKeepsStream(d) ==
  [d EXCEPT !.isInitialized = FALSE, !.audioContext = FALSE]

\* PitchDetector.cleanup: stops the stream, closes the context.
cleanup(d) ==
  [d EXCEPT !.isInitialized = FALSE, !.microphone = FALSE, !.audioContext = FALSE]

\* The Error thrown by initialize()'s catch: `Failed to access microphone: ${error}`.
InitializeError(cause) == [message |-> <<"Failed to access microphone: ", cause>>]

\* ------------------------------------------------ MicrophoneAnalyzer
\* setInterval(callback, 80): one more registered interval, first due in 80 ms.
setInterval(a) ==
  [a EXCEPT !.analysisIntervalRef = TRUE, !.timers = @ + 1, !.timerDue = now + TickMs]

\* The ref is nulled without clearInterval: the interval stays registered.
dropInterval(a) ==
  [a EXCEPT !.analysisIntervalRef = FALSE]

\* if (analysisIntervalRef.current) { clearInterval(...); ... = null; }
clearInterval(a) ==
  IF a.analysisIntervalRef
  THEN [a EXCEPT !.analysisIntervalRef = FALSE, !.timers = @ - 1]
  ELSE a

startAnalysis(a) ==
  IF a.analysisIntervalRef \/ ~a.pitchDetectorRef
  THEN a
  ELSE setInterval(onMicrophoneStateChange(a, [isRecording |-> TRUE]))

stopAnalysis(a) ==
  onMicrophoneStateChange(clearInterval(a), [isRecording |-> FALSE])

\* releaseMicrophone without its first block: the detector is cleaned up and
\* dropped while a registered interval stays.
releaseKeepsInterval(a) ==
  onMicrophoneStateChange(
    [a EXCEPT !.detector = IF a.pitchDetectorRef THEN cleanup(@) ELSE @,
              !.pitchDetectorRef = FALSE,
              !.historyBufferRef = << >>,
              !.currentNoteIndexRef = 0,
              !.lastHitNoteIdRef = Null,
              !.lastUIUpdateTsRef = 0,
              !.lastHistoryFlushTsRef = 0],
    [isRecording |-> FALSE])

releaseMicrophone(a) ==
  onMicrophoneStateChange(
    [clearInterval(a) EXCEPT
              !.detector = IF a.pitchDetectorRef THEN cleanup(@) ELSE @,
              !.pitchDetectorRef = FALSE,
              !.historyBufferRef = << >>,
              !.currentNoteIndexRef = 0,
              !.lastHitNoteIdRef = Null,
              !.lastUIUpdateTsRef = 0,
              !.lastHistoryFlushTsRef = 0],
    [isRecording |-> FALSE])

\* initializeMicrophone up to its first await: the guard, the state change,
\* new PitchDetector(), attempt 1 entering detector.initialize() which
\* suspends in getUserMedia.
initializeMicrophone(a) ==
  IF a.pitchDetectorRef \/ a.isInitializingRef
  THEN a
  ELSE [onMicrophoneStateChange(a, [isRequestingPermission |-> TRUE, error |-> Null])
          EXCEPT !.isInitializingRef = TRUE,
                 !.acquiring = @ + 1,
                 !.detector = NewDetector,
                 !.attempt = 1,
                 !.attemptErrors = << >>,
                 !.waits = << >>,
                 !.initPc = "getUserMedia"]

\* The lifecycle effect body (ResultsDisplay.tsx 380-416) for the given props.
lifecycleEffect(a, playing, muted) ==
  LET shouldRecord == playing /\ ~muted
      hasDetector == a.pitchDetectorRef
      isAnalyzing == a.analysisIntervalRef
  IN IF shouldRecord
     THEN IF ~hasDetector /\ ~a.isInitializingRef THEN initializeMicrophone(a)
          ELSE IF hasDetector /\ ~isAnalyzing THEN startAnalysis(a)
          ELSE a
     ELSE LET a1 == IF isAnalyzing THEN stopAnalysis(a) ELSE a
          IN IF hasDetector /\ ~playing THEN releaseMicrophone(a1) ELSE a1

\* The continuation of initializeMicrophone().then(...) (396-401).
thenStartAnalysis(a) ==
  IF a.pitchDetectorRef /\ ~a.analysisIntervalRef THEN startAnalysis(a) ELSE a

\* initializeMicrophone after the retry loop ended in success (199-207, 221-223).
initSucceeded(a) ==
  thenStartAnalysis(
    [onMicrophoneStateChange(a, [isEnabled |-> TRUE, hasPermission |-> TRUE,
                                 isRequestingPermission |-> FALSE, error |-> Null])
       EXCEPT !.isInitializingRef = FALSE, !.acquiring = @ - 1,
              !.initPc = "succeeded"])

\* detector.initialize() resolved (72, 184-187).
attemptSucceeded(a) ==
  initSucceeded([a EXCEPT !.detector.isInitialized = TRUE,
                          !.pitchDetectorRef = TRUE])

\* initializeMicrophone after the loop ended without success (208-223).
initFailed(a, lastError) ==
  thenStartAnalysis(
    [onMicrophoneStateChange(a, [isEnabled |-> FALSE, hasPermission |-> FALSE,
                                 isRequestingPermission |-> FALSE,
                                 error |-> lastError.message])
       EXCEPT !.pitchDetectorRef = FALSE,
              !.isInitializingRef = FALSE,
              !.acquiring = @ - 1,
              !.initPc = "failed"])

\* attemptFailed with the loop bound off by one (`attempt <= 3` tested after
\* the increment): a fourth attempt follows the third failure.
attemptFailedOneMore(a, cause) ==
  LET err == InitializeError(cause)
      a1 == [a EXCEPT !.detector = cleanup(@),
                      !.attemptErrors = Append(@, err)]
  IN IF a.attempt <= MaxAttempts
     THEN [a1 EXCEPT !.waits = Append(@, RetryDelayMs * a.attempt),
                     !.initPc = "retryDelay"]
     ELSE initFailed(a1, err)

\* detector.initialize() threw `cause` (74-77), caught by the retry loop (188-196).
attemptFailed(a, cause) ==
  LET err == InitializeError(cause)
      a1 == [a EXCEPT !.detector = cleanup(@),
                      !.attemptErrors = Append(@, err)]
  IN IF a.attempt < MaxAttempts
     THEN [a1 EXCEPT !.waits = Append(@, RetryDelayMs * a.attempt),
                     !.initPc = "retryDelay"]
     ELSE initFailed(a1, err)

\* ------------------------------------------------- the analysis tick
\* Deviation in cents wrapped to the nearest octave (ResultsDisplay.tsx 121-128).
\* Both frequencies are finite and positive here, so the early return is not taken.
\* The raw deviation, not wrapped.
centsRaw(targetHz, detectedHz) == detectedHz - targetHz

RECURSIVE WrapCents(_)
WrapCents(cents) ==
  IF cents > HalfOctaveCents THEN WrapCents(cents - OctaveCents)
  ELSE IF cents < -HalfOctaveCents THEN WrapCents(cents + OctaveCents)
  ELSE cents
centsToNearestOctave(targetHz, detectedHz) == WrapCents(detectedHz - targetHz)

\* Marks the TypeError of reading notes[idx].time with idx = notes.length.
Thrown == -1

\* advanceIndex with `>=`: a note is left already at its last instant.
RECURSIVE advanceIndexEarly(_, _, _)
advanceIndexEarly(notes, t, idx) ==
  IF idx < Len(notes) /\ t >= notes[idx + 1].time + notes[idx + 1].duration
  THEN advanceIndexEarly(notes, t, idx + 1)
  ELSE idx

\* while (idx < notes.length && t > notes[idx].time + notes[idx].duration) idx++;
\* (idx is the 0-based JavaScript index, notes[idx] is notes[idx + 1] here)
RECURSIVE advanceIndex(_, _, _)
advanceIndex(notes, t, idx) ==
  IF idx < Len(notes) /\ t > notes[idx + 1].time + notes[idx + 1].duration
  THEN advanceIndex(notes, t, idx + 1)
  ELSE idx

\* retreatIndex with the comparison reversed (`t > notes[idx].time`).
RECURSIVE retreatIndexWrongSign(_, _, _)
retreatIndexWrongSign(notes, t, idx) ==
  IF idx > 0
  THEN IF idx >= Len(notes) THEN Thrown
       ELSE IF t > notes[idx + 1].time THEN retreatIndexWrongSign(notes, t, idx - 1)
       ELSE idx
  ELSE idx

\* while (idx > 0 && t < notes[idx].time) idx--;
RECURSIVE retreatIndex(_, _, _)
retreatIndex(notes, t, idx) ==
  IF idx > 0
  THEN IF idx >= Len(notes) THEN Thrown
       ELSE IF t < notes[idx + 1].time THEN retreatIndex(notes, t, idx - 1)
       ELSE idx
  ELSE idx

NoNote == MkNote(Null, 0, 0, 0)

\* Lines 271-284: the moving index, the candidate and the active target.
trackTarget(notes, t, idx0, semitones) ==
  LET idx == retreatIndex(notes, t, advanceIndex(notes, t, idx0))
  IN IF idx = Thrown
     THEN [threw |-> TRUE, idx |-> idx0, candidate |-> NoNote, targetNote |-> NoNote]
     ELSE LET candidate == IF idx < Len(notes) THEN notes[idx + 1] ELSE NoNote
              inNote == /\ candidate.id # Null
                        /\ t >= candidate.time
                        /\ t <= candidate.time + candidate.duration
          IN [threw |-> FALSE, idx |-> idx, candidate |-> candidate,
              targetNote |-> IF inNote THEN transposeNote(candidate, semitones)
                             ELSE NoNote]

\* What the microphone may carry on a tick: silence, or a tone (in cents).
Silence == -1
HeardTones == {6000, 6100}

\* detector.detectPitch(): null before initialization, on silence (VAD gate) or
\* when no frequency is found; else the frequency and its rounded MIDI pitch.
detectPitch(d, heard) ==
  IF ~d.isInitialized \/ heard = Silence
  THEN [found |-> FALSE, frequency |-> 0, pitch |-> 0]
  ELSE [found |-> TRUE, frequency |-> heard, pitch |-> frequencyToMidi(heard)]

NoTick ==
  [outcome |-> "none", target |-> Null, targetPitch |-> 0, candidate |-> Null,
   hit |-> Null, isOnPitch |-> FALSE, deviation |-> 0, accuracy |-> 0,
   published |-> FALSE, flushed |-> << >>]

\* noteHit without the comparison against the held id.
noteHitUnguarded(isOnPitch, targetNote, lastHitNoteId) ==
  IF isOnPitch /\ targetNote.id # "" THEN targetNote.id ELSE Null

\* noteHit with the guard used as a latch: a hit only while no id is held.
noteHitLatch(isOnPitch, targetNote, lastHitNoteId) ==
  IF isOnPitch /\ targetNote.id # "" /\ lastHitNoteId = Null
  THEN targetNote.id
  ELSE Null

\* Lines 305-324: the guarded note hit; the id to report, or Null.
noteHit(isOnPitch, targetNote, lastHitNoteId) ==
  IF isOnPitch /\ targetNote.id # "" /\ lastHitNoteId # targetNote.id
  THEN targetNote.id
  ELSE Null

\* A snapshot on every tick.
uiUpdateAlways(at, ts) == TRUE

\* now - lastUIUpdateTsRef.current >= UI_UPDATE_MS (327, 350)
uiUpdateDue(at, ts) == at - ts >= UI_UPDATE_MS

\* The flush throttle with twice the period.
historyFlushDueSlow(at, ts) == at - ts >= 2 * HISTORY_FLUSH_MS

\* now - lastHistoryFlushTsRef.current >= HISTORY_FLUSH_MS (340)
historyFlushDue(at, ts) == at - ts >= HISTORY_FLUSH_MS

\* A flush that leaves the delivered points in the buffer.
keepHistoryBuffer(buf) == buf

\* historyBufferRef.current = [] after the batch was delivered (345).
clearHistoryBuffer(buf) == << >>

\* A catch block that gives the analysis up: the interval is cleared.
tickThrewStops(a) == stopAnalysis(a)

\* catch (error) { console.error(...) } (362-365): nothing else is done.
tickThrew(a) == a

\* The interval callback (262-366) at wall-clock time `at`, hearing `heard`,
\* with `notes` the currentSong.notes of its closure: the new analyzer record
\* and the tick's outcome.
tickOn(notes, a, at, t, semitones, heard) ==
  LET pitchResult == detectPitch(a.detector, heard)
      tr == trackTarget(notes, t, a.currentNoteIndexRef, semitones)
      targetNote == tr.targetNote
      hasTarget == targetNote.id # Null
      publish(ts) == uiUpdateDue(at, ts)
  IN IF tr.threw
     THEN [a |-> tickThrew(a), out |-> [NoTick EXCEPT !.outcome = "threw"]]
     ELSE IF pitchResult.found
     THEN
       LET deviation == IF hasTarget
                        THEN centsToNearestOctave(targetNote.frequency, pitchResult.frequency)
                        ELSE 0
           octaveAdjusted == hasTarget /\ isOctaveEquivalent(targetNote.pitch, pitchResult.pitch)
           isOnPitch == hasTarget /\ (Abs(deviation) <= OnPitchCents \/ octaveAdjusted)
           accuracy == IF hasTarget THEN Max(0, OctaveCents - Abs(deviation)) ELSE 0
           hit == IF hasTarget THEN noteHit(isOnPitch, targetNote, a.lastHitNoteIdRef) ELSE Null
           buf == Append(a.historyBufferRef,
                         [time |-> t, pitch |-> pitchResult.pitch, isOnPitch |-> isOnPitch,
                          at |-> at])
           flush == historyFlushDue(at, a.lastHistoryFlushTsRef)
       IN [a |-> [a EXCEPT
                    !.currentNoteIndexRef = tr.idx,
                    !.lastHitNoteIdRef = IF ~hasTarget THEN Null
                                         ELSE IF hit # Null THEN hit ELSE @,
                    !.lastUIUpdateTsRef = IF publish(@) THEN at ELSE @,
                    !.lastHistoryFlushTsRef = IF flush THEN at ELSE @,
                    !.historyBufferRef = IF flush THEN clearHistoryBuffer(buf) ELSE buf],
           out |-> [outcome |-> "pitch", target |-> targetNote.id,
                    targetPitch |-> targetNote.pitch, candidate |-> tr.candidate.id,
                    hit |-> hit, isOnPitch |-> isOnPitch, deviation |-> deviation,
                    accuracy |-> accuracy,
                    published |-> publish(a.lastUIUpdateTsRef),
                    flushed |-> IF flush THEN buf ELSE << >>]]
     ELSE
       [a |-> [a EXCEPT !.currentNoteIndexRef = tr.idx,
                        !.lastUIUpdateTsRef = IF publish(@) THEN at ELSE @],
        out |-> [NoTick EXCEPT !.outcome = "silent", !.target = targetNote.id,
                               !.targetPitch = targetNote.pitch,
                               !.candidate = tr.candidate.id,
                               !.published = publish(a.lastUIUpdateTsRef)]]

\* The interval callback whose closure holds the song of this model.
tick(a, at, t, semitones, heard) == tickOn(SongNotes, a, at, t, semitones, heard)

\* ---------------------------------------- observers of the hit stream
\* occupancy: the note the tracker has reported on every tick of the current
\* run of ticks, the hits emitted for it in that run, and those emitted since
\* the microphone was last released.
NoOccupancy == [id |-> Null, hits |-> 0, sessionHits |-> 0]

observeOccupancy(o, out) ==
  IF out.outcome = "threw" \/ out.target = Null
  THEN NoOccupancy
  ELSE LET h == IF out.hit # Null THEN 1 ELSE 0
       IN IF o.id = out.target
          THEN [o EXCEPT !.hits = Min(2, @ + h), !.sessionHits = Min(2, @ + h)]
          ELSE [id |-> out.target, hits |-> h, sessionHits |-> h]

\* visit[n]: "hit" once a hit for n was emitted; then "away" once the tracker
\* reported another note, "awayHit" once a hit for another note was emitted;
\* "rehit" when a hit for n follows "awayHit".
observeVisit(v, out) ==
  [n \in NoteIds |->
     IF out.outcome = "threw" THEN v[n]
     ELSE IF out.hit = n THEN (IF v[n] = "awayHit" THEN "rehit" ELSE "hit")
     ELSE IF v[n] = "idle" THEN "idle"
     ELSE IF out.hit # Null THEN "awayHit"
     ELSE IF out.target # Null /\ out.target # n /\ v[n] \in {"hit", "rehit"} THEN "away"
     ELSE v[n]]

\* sink: when the last snapshot was emitted and the last history batch was
\* delivered, how many points ticks have buffered since the last delivery
\* (pushed) and since the last delivery or release (kept).
NoSink == [snapshotAt |-> 0, flushAt |-> 0, pushed |-> 0, kept |-> 0]

observeSink(k, out, at) ==
  IF out.outcome = "none" THEN k
  ELSE LET delivered == out.flushed # << >>
           buffered == out.outcome = "pitch"
       IN [snapshotAt |-> IF out.published THEN at ELSE k.snapshotAt,
           flushAt |-> IF delivered THEN at ELSE k.flushAt,
           pushed |-> IF delivered THEN 0 ELSE IF buffered THEN k.pushed + 1 ELSE k.pushed,
           kept |-> IF delivered THEN 0 ELSE IF buffered THEN k.kept + 1 ELSE k.kept]

\* A handler that is not a tick: the observers see only a release.
Observe(a2) ==
  /\ occupancy' = IF pitchDetectorRef /\ ~a2.pitchDetectorRef
                  THEN [occupancy EXCEPT !.sessionHits = 0]
                  ELSE occupancy
  /\ sink' = IF pitchDetectorRef /\ ~a2.pitchDetectorRef
             THEN [sink EXCEPT !.kept = 0]
             ELSE sink
  /\ UNCHANGED <<now, lastTick, visit, fnVars>>

\* ------------------------------------------------------------------ Init
InitialMicrophone ==
  [isRecording |-> FALSE, isEnabled |-> FALSE, isMuted |-> FALSE, error |-> Null,
   hasPermission |-> FALSE, isRequestingPermission |-> FALSE]

Idle == [done |-> FALSE]

InitProgram ==
  /\ isPlaying = FALSE
  /\ \E muted \in BOOLEAN : microphone = [InitialMicrophone EXCEPT !.isMuted = muted]
  /\ currentTimeRef = 0
  /\ transpositionSemitones = 0
  /\ mounted = TRUE
  /\ closureSemitones = transpositionSemitones
  /\ pitchDetectorRef = FALSE
  /\ analysisIntervalRef = FALSE
  /\ isInitializingRef = FALSE
  /\ lastUIUpdateTsRef = 0
  /\ historyBufferRef = << >>
  /\ lastHistoryFlushTsRef = 0
  /\ currentNoteIndexRef = 0
  /\ lastHitNoteIdRef = Null
  /\ timers = 0
  /\ timerDue = Epoch + TickMs
  /\ detector = NewDetector
  /\ initPc = "idle"
  /\ attempt = 0
  /\ attemptErrors = << >>
  /\ waits = << >>
  /\ acquiring = 0
  /\ now = Epoch
  /\ lastTick = NoTick
  /\ occupancy = NoOccupancy
  /\ visit = [n \in NoteIds |-> "idle"]
  /\ sink = NoSink

Init ==
  /\ InitProgram
  /\ probe = Idle
  /\ result = Idle

\* --------------------------------------------------------------- actions
\* startCountdown's tail (App.tsx 293-300): playback starts, the effect runs.
Play ==
  /\ mounted
  /\ ~isPlaying
  /\ isPlaying' = TRUE
  /\ LET a2 == lifecycleEffect(Analyzer, TRUE, microphone.isMuted)
     IN Commit(a2) /\ Observe(a2)
  /\ UNCHANGED <<currentTimeRef, transpositionSemitones, mounted, closureSemitones>>

\* togglePlayback while playing (App.tsx 311-317).
Stop ==
  /\ mounted
  /\ isPlaying
  /\ isPlaying' = FALSE
  /\ LET a2 == lifecycleEffect(Analyzer, FALSE, microphone.isMuted)
     IN Commit(a2) /\ Observe(a2)
  /\ UNCHANGED <<currentTimeRef, transpositionSemitones, mounted, closureSemitones>>

\* toggleMicrophoneMute (App.tsx 210-212), then the effect.
ToggleMicrophoneMute ==
  /\ mounted
  /\ LET muted == ~microphone.isMuted
         a1 == onMicrophoneStateChange(Analyzer, [isMuted |-> muted])
         a2 == lifecycleEffect(a1, isPlaying, muted)
     IN Commit(a2) /\ Observe(a2)
  /\ UNCHANGED <<isPlaying, currentTimeRef, transpositionSemitones, mounted, closureSemitones>>

\* One animation frame while playing (App.tsx 337-378), before the song's end.
AdvanceTime ==
  /\ isPlaying
  /\ currentTimeRef + 1 < actualSongDuration
  /\ currentTimeRef' = currentTimeRef + 1
  /\ UNCHANGED <<isPlaying, microphone, transpositionSemitones, mounted, refVars,
                 closureSemitones, initVars, tickVars, fnVars>>

\* The frame that reaches actualSongDuration (App.tsx 352-373).
SongCompleted ==
  /\ mounted
  /\ isPlaying
  /\ currentTimeRef + 1 >= actualSongDuration
  /\ currentTimeRef' = 0
  /\ isPlaying' = FALSE
  /\ LET a2 == lifecycleEffect(Analyzer, FALSE, microphone.isMuted)
     IN Commit(a2) /\ Observe(a2)
  /\ UNCHANGED <<transpositionSemitones, mounted, closureSemitones>>

\* A click on the timeline canvas (Timeline onClick): seek.
Seek ==
  /\ \E newTime \in 0..actualSongDuration : currentTimeRef' = newTime
  /\ currentTimeRef' # currentTimeRef
  /\ UNCHANGED <<isPlaying, microphone, transpositionSemitones, mounted, refVars,
                 closureSemitones, initVars, tickVars, fnVars>>

\* transposeUp / transposeDown (App.tsx 140-146).  startAnalysis does not list
\* transpositionSemitones among its dependencies, so its closure keeps its value.
transposeUp ==
  /\ transpositionSemitones + 1 <= MaxShift
  /\ transpositionSemitones' = Min(MaxTransposition, transpositionSemitones + 1)
  /\ UNCHANGED <<isPlaying, microphone, currentTimeRef, mounted, refVars,
                 closureSemitones, initVars, tickVars, fnVars>>

transposeDown ==
  /\ transpositionSemitones - 1 >= -MaxShift
  /\ transpositionSemitones' = Max(MinTransposition, transpositionSemitones - 1)
  /\ UNCHANGED <<isPlaying, microphone, currentTimeRef, mounted, refVars,
                 closureSemitones, initVars, tickVars, fnVars>>

\* How one await inside detector.initialize() may settle.
GetUserMediaOutcomes == {"stream", "denied"}
AudioContextOutcomes == {"running", "suspended", "unsupported"}
ResumeOutcomes == {"running", "suspended"}

\* getUserMedia settles (pitchDetection.ts 38-57, up to the next await).
GetUserMediaSettles(outcomes, contexts) ==
  /\ initPc = "getUserMedia"
  /\ \E o \in outcomes, c \in contexts :
       LET a == Analyzer
           held == [a EXCEPT !.detector.microphone = TRUE]
           a2 == IF o = "denied" THEN attemptFailed(a, "NotAllowedError")
                 ELSE IF c = "unsupported"
                      THEN attemptFailed(held, "Web Audio API is not supported in this browser")
                 ELSE IF c = "suspended"
                      THEN [held EXCEPT !.detector.audioContext = TRUE, !.initPc = "resume"]
                 ELSE attemptSucceeded([held EXCEPT !.detector.audioContext = TRUE])
       IN Commit(a2) /\ Observe(a2)
  /\ UNCHANGED <<isPlaying, currentTimeRef, transpositionSemitones, mounted, closureSemitones>>

\* audioContext.resume() settles (pitchDetection.ts 52-72).
ResumeSettles(outcomes) ==
  /\ initPc = "resume"
  /\ \E o \in outcomes :
       LET a2 == IF o = "suspended"
                 THEN attemptFailed(Analyzer, "AudioContext remains suspended")
                 ELSE attemptSucceeded(Analyzer)
       IN Commit(a2) /\ Observe(a2)
  /\ UNCHANGED <<isPlaying, currentTimeRef, transpositionSemitones, mounted, closureSemitones>>

\* The retry delay elapses (194): the next attempt enters detector.initialize().
RetryDelayElapsed ==
  /\ initPc = "retryDelay"
  /\ LET a2 == [Analyzer EXCEPT !.attempt = @ + 1, !.initPc = "getUserMedia"]
     IN Commit(a2) /\ Observe(a2)
  /\ UNCHANGED <<isPlaying, currentTimeRef, transpositionSemitones, mounted, closureSemitones>>

\* The registered interval fires (262-366), `late` ms after its nominal time;
\* the host schedules the next firing one period after the nominal time.
TickAt(lates) ==
  /\ analysisIntervalRef
  /\ \E late \in lates, heard \in HeardTones \cup {Silence} :
       /\ timerDue + late <= Epoch + MaxTicks * TickMs
       /\ now' = timerDue + late
       /\ LET a == [Analyzer EXCEPT !.timerDue = @ + TickMs]
              r == IF ~pitchDetectorRef
                   THEN [a |-> a, out |-> NoTick]
                   ELSE tick(a, now', currentTimeRef, closureSemitones, heard)
          IN /\ Commit(r.a)
             /\ lastTick' = r.out
             /\ occupancy' = observeOccupancy(occupancy, r.out)
             /\ visit' = observeVisit(visit, r.out)
             /\ sink' = observeSink(sink, r.out, now')
  /\ UNCHANGED <<isPlaying, currentTimeRef, transpositionSemitones, mounted,
                 closureSemitones, fnVars>>

\* The interval fires on time.
Tick == TickAt({0})

\* The interval fires on time or late (a busy main thread).
LateTick == TickAt({0, MaxLate})

\* The component is unmounted: the cleanup of the unmount effect (419-423).
Unmount ==
  /\ mounted
  /\ mounted' = FALSE
  /\ LET a2 == releaseMicrophone(Analyzer)
     IN Commit(a2) /\ Observe(a2)
  /\ UNCHANGED <<isPlaying, currentTimeRef, transpositionSemitones, closureSemitones>>

\* The capture lifecycle under every way an acquisition attempt can settle.
Next ==
  \/ Play
  \/ Stop
  \/ ToggleMicrophoneMute
  \/ GetUserMediaSettles(GetUserMediaOutcomes, AudioContextOutcomes)
  \/ ResumeSettles(ResumeOutcomes)
  \/ RetryDelayElapsed
  \/ Unmount

Spec == Init /\ [][Next]_vars

\* The analysis ticks of a session whose microphone is granted at once.
NextTick ==
  \/ Play
  \/ Stop
  \/ ToggleMicrophoneMute
  \/ AdvanceTime
  \/ SongCompleted
  \/ Seek
  \/ transposeUp
  \/ transposeDown
  \/ GetUserMediaSettles({"stream"}, {"running"})
  \/ Tick

SpecTick == Init /\ [][NextTick]_vars

\* The output channels of a session whose interval callbacks may fire late.
NextSink ==
  \/ Play
  \/ Stop
  \/ ToggleMicrophoneMute
  \/ AdvanceTime
  \/ GetUserMediaSettles({"stream"}, {"running"})
  \/ LateTick

SpecSink == Init /\ [][NextSink]_vars

\* ------------------------------------- the analysis ticking without end
\* The tick reads the clock only through the differences now - lastUIUpdateTsRef
\* and now - lastHistoryFlushTsRef, so the clock is carried cyclically: when the
\* next nominal firing would pass the horizon, the clock and every stored
\* timestamp are shifted back by the horizon's length; a timestamp that is then
\* at least HISTORY_FLUSH_MS (the longer throttle) older than the clock becomes
\* 0: it is due at every later tick either way.
Shifted(ts, shift, clock) ==
  IF ts - shift + HISTORY_FLUSH_MS <= clock THEN 0 ELSE ts - shift

Rebase(a, shift, clock) ==
  [a EXCEPT !.timerDue = @ - shift,
            !.lastUIUpdateTsRef = Shifted(@, shift, clock),
            !.lastHistoryFlushTsRef = Shifted(@, shift, clock),
            !.historyBufferRef =
               [i \in 1..Len(@) |-> [@[i] EXCEPT !.at = Shifted(@, shift, clock)]]]

\* The registered interval fires on time, tick after tick.
DrainTick ==
  /\ analysisIntervalRef
  /\ \E heard \in HeardTones \cup {Silence} :
       LET at == timerDue
           a == [Analyzer EXCEPT !.timerDue = @ + TickMs]
           r == IF ~pitchDetectorRef
                THEN [a |-> a, out |-> NoTick]
                ELSE tick(a, at, currentTimeRef, closureSemitones, heard)
           wrap == r.a.timerDue > Epoch + MaxTicks * TickMs
       IN /\ now' = IF wrap THEN at - MaxTicks * TickMs ELSE at
          /\ Commit(IF wrap THEN Rebase(r.a, MaxTicks * TickMs, at - MaxTicks * TickMs)
                    ELSE r.a)
          /\ lastTick' = r.out
  /\ UNCHANGED <<isPlaying, currentTimeRef, transpositionSemitones, mounted,
                 closureSemitones, occupancy, visit, sink, fnVars>>

NextDrain ==
  \/ Play
  \/ Stop
  \/ GetUserMediaSettles({"stream"}, {"running"})
  \/ DrainTick

\* setInterval keeps firing the registered interval.
SpecDrain == Init /\ [][NextDrain]_vars /\ WF_vars(DrainTick)

\* The same unending analysis with the mute button.
NextBuffer ==
  \/ Play
  \/ Stop
  \/ ToggleMicrophoneMute
  \/ GetUserMediaSettles({"stream"}, {"running"})
  \/ DrainTick

SpecBuffer == Init /\ [][NextBuffer]_vars

\* ------------------------------------------------- the score of a run
\* The App state behind the results, held in `result`: the song shown
\* (currentSong), the song in the closure of the startAnalysis that the
\* lifecycle effect last called or handed to .then (closureSong), the set
\* noteHits, and the results of the last completed song.
\* A second song: one note; note ids are the position in the song, as in
\* the song parser, so its note has the id of the first note of SongNotes.
OtherSong == << MkNote("a", 1, 1, 60) >>
Songs == [A |-> SongNotes, B |-> OtherSong]
NoResults == [completed |-> FALSE, totalNotes |-> 0, correctNotes |-> 0]

InitScore ==
  /\ InitProgram
  /\ probe = Idle
  /\ result = [done |-> FALSE, currentSong |-> "A", closureSong |-> "A",
               noteHits |-> {}, results |-> NoResults]

\* The song of the startAnalysis the effect run uses: the effect calls
\* startAnalysis, or hands it to initializeMicrophone().then, only when
\* recording is wanted and no interval is registered.
capturedSong(a, playing, muted, song, held) ==
  IF /\ playing /\ ~muted
     /\ \/ ~a.pitchDetectorRef /\ ~a.isInitializingRef
        \/ a.pitchDetectorRef /\ ~a.analysisIntervalRef
  THEN song ELSE held

\* startCountdown's tail (App.tsx 293-300) and the effect.
ScorePlay ==
  /\ mounted /\ ~isPlaying
  /\ isPlaying' = TRUE
  /\ Commit(lifecycleEffect(Analyzer, TRUE, microphone.isMuted))
  /\ result' = [result EXCEPT
                  !.noteHits = {}, !.results = NoResults,
                  !.closureSong = capturedSong(Analyzer, TRUE, microphone.isMuted,
                                               result.currentSong, @)]
  /\ UNCHANGED <<currentTimeRef, transpositionSemitones, mounted, closureSemitones,
                 tickVars, probe>>

\* handleSongChange (App.tsx 401-422), the song effect (ResultsDisplay.tsx
\* 226-229) and the lifecycle effect.
ScoreSongChange ==
  /\ mounted
  /\ \E song \in DOMAIN Songs :
       /\ song # result.currentSong
       /\ result' = [result EXCEPT !.currentSong = song, !.noteHits = {},
                                   !.results = NoResults]
  /\ isPlaying' = FALSE
  /\ currentTimeRef' = 0
  /\ Commit(lifecycleEffect([Analyzer EXCEPT !.currentNoteIndexRef = 0,
                                             !.lastHitNoteIdRef = Null],
                            FALSE, microphone.isMuted))
  /\ UNCHANGED <<transpositionSemitones, mounted, closureSemitones, tickVars, probe>>

\* One animation frame before the end of the song shown (App.tsx 337-378).
ScoreFrame ==
  /\ isPlaying
  /\ currentTimeRef + 1 < calculateSongDuration(Songs[result.currentSong])
  /\ currentTimeRef' = currentTimeRef + 1
  /\ UNCHANGED <<isPlaying, microphone, transpositionSemitones, mounted, refVars,
                 closureSemitones, initVars, tickVars, fnVars>>

\* A click on the timeline canvas.
ScoreSeek ==
  /\ \E newTime \in 0..calculateSongDuration(Songs[result.currentSong]) :
       currentTimeRef' = newTime
  /\ currentTimeRef' # currentTimeRef
  /\ UNCHANGED <<isPlaying, microphone, transpositionSemitones, mounted, refVars,
                 closureSemitones, initVars, tickVars, fnVars>>

\* The frame that reaches the song's duration (App.tsx 352-373): the results.
ScoreCompleted ==
  /\ mounted /\ isPlaying
  /\ currentTimeRef + 1 >= calculateSongDuration(Songs[result.currentSong])
  /\ result' = [result EXCEPT !.results =
                  [completed |-> TRUE,
                   totalNotes |-> Len(Songs[result.currentSong]),
                   correctNotes |-> Cardinality(result.noteHits)]]
  /\ currentTimeRef' = 0
  /\ isPlaying' = FALSE
  /\ Commit(lifecycleEffect(Analyzer, FALSE, microphone.isMuted))
  /\ UNCHANGED <<transpositionSemitones, mounted, closureSemitones, tickVars, probe>>

\* The interval fires on time; its closure reads closureSong, and a hit goes
\* to handleNoteHit (App.tsx 178-180). The tick's outcome is observed through
\* noteHits only.
ScoreTick ==
  /\ analysisIntervalRef
  /\ \E heard \in HeardTones \cup {Silence} :
       LET at == timerDue
           a == [Analyzer EXCEPT !.timerDue = @ + TickMs]
           r == IF ~pitchDetectorRef
                THEN [a |-> a, out |-> NoTick]
                ELSE tickOn(Songs[result.closureSong], a, at, currentTimeRef,
                            closureSemitones, heard)
           wrap == r.a.timerDue > Epoch + MaxTicks * TickMs
       IN /\ now' = IF wrap THEN at - MaxTicks * TickMs ELSE at
          /\ Commit(IF wrap THEN Rebase(r.a, MaxTicks * TickMs, at - MaxTicks * TickMs)
                    ELSE r.a)
          /\ result' = IF r.out.hit # Null
                       THEN [result EXCEPT !.noteHits = @ \cup {r.out.hit}]
                       ELSE result
  /\ UNCHANGED <<isPlaying, currentTimeRef, transpositionSemitones, mounted,
                 closureSemitones, lastTick, occupancy, visit, sink, probe>>

NextScore ==
  \/ ScorePlay
  \/ Stop
  \/ ScoreSongChange
  \/ ScoreFrame
  \/ ScoreSeek
  \/ ScoreCompleted
  \/ GetUserMediaSettles({"stream"}, {"running"})
  \/ ScoreTick

SpecScore == InitScore /\ [][NextScore]_vars

\* ------------------------------------------ the tracker on drawn inputs
\* Bounds of the drawn note lists: their length, start times and durations.
MaxNotes == 3
MaxStart == 3
MaxDuration == 2

\* Note lists ordered by start time, each note with a positive duration.
NoteLists ==
  LET Shape == [time : 0..MaxStart, duration : 1..MaxDuration]
      Lists == UNION {[1..n -> Shape] : n \in 1..MaxNotes}
      Ordered(l) == \A i \in 1..(Len(l) - 1) : l[i].time <= l[i + 1].time
  IN {[i \in 1..Len(l) |-> MkNote(<<"n", i>>, l[i].time, l[i].duration, 60 + i)] :
        l \in {x \in Lists : Ordered(x)}}

InitTracker ==
  /\ InitProgram
  /\ \E notes \in NoteLists, t \in 0..(MaxStart + MaxDuration + 1) :
       \E idx \in 0..(Len(notes) - 1) :
         probe = [done |-> TRUE, notes |-> notes, t |-> t, idx |-> idx]
  /\ result = Idle

\* One tick's tracker step on the drawn list, time and stored cursor.
TrackerStep ==
  /\ probe.done /\ ~result.done
  /\ result' = [done |-> TRUE,
                tr |-> trackTarget(probe.notes, probe.t, probe.idx, 0)]
  /\ UNCHANGED <<appVars, refVars, closureSemitones, initVars, tickVars, probe>>

NextTracker == TrackerStep

SpecTracker == InitTracker /\ [][NextTracker]_vars

\* ------------------------------- the stored cursor over a run of ticks
\* A drawn song, the cursor as mounted (0); probe holds the song, result the
\* stored cursor, the playback time of the latest tick, the cursor that tick
\* stored, and whether the microphone was released since.
InitCursor ==
  /\ InitProgram
  /\ \E notes \in NoteLists : probe = [done |-> TRUE, notes |-> notes]
  /\ result = [done |-> FALSE, idx |-> currentNoteIndexRef]

\* One tick's cursor update (271-280) at playback time t; a tick that throws
\* stores nothing.
CursorTick ==
  /\ probe.done
  /\ \E t \in 0..(MaxStart + MaxDuration + 1) :
       LET tr == trackTarget(probe.notes, t, result.idx, 0)
           stored == IF tr.threw THEN result.idx ELSE tr.idx
       IN result' = [done |-> TRUE, idx |-> stored, t |-> t, ticked |-> stored,
                     released |-> FALSE]
  /\ UNCHANGED <<appVars, refVars, closureSemitones, initVars, tickVars, probe>>

\* releaseMicrophone between two ticks: its reset of the cursor (244).
CursorRelease ==
  /\ result.done
  /\ result' = [result EXCEPT !.idx = releaseMicrophone(Analyzer).currentNoteIndexRef,
                               !.released = TRUE]
  /\ UNCHANGED <<appVars, refVars, closureSemitones, initVars, tickVars, probe>>

NextCursor == CursorTick \/ CursorRelease

SpecCursor == InitCursor /\ [][NextCursor]_vars

\* --------------------------- the deviation and the snapshot on drawn inputs
\* How many octaves below and above middle C the drawn tones reach.
MaxOctaves == 2
\* Tones in quarter-tone steps around middle C (6000 cents).
DrawnTones == {6000 + 50 * k : k \in (-24 * MaxOctaves)..(24 * MaxOctaves)}
DrawnTargets == {midiToFrequency(60), midiToFrequency(69)}

InitCents ==
  /\ InitProgram
  /\ \E targetHz \in DrawnTargets, detectedHz \in DrawnTones :
       probe = [done |-> TRUE, targetHz |-> targetHz, detectedHz |-> detectedHz]
  /\ result = Idle

\* centsToNearestOctave for the drawn pair and for the detected frequency
\* doubled (one octave, 1200 cents, up).
CentsStep ==
  /\ probe.done /\ ~result.done
  /\ result' = [done |-> TRUE,
                cents |-> centsToNearestOctave(probe.targetHz, probe.detectedHz),
                octaveUp |-> centsToNearestOctave(probe.targetHz,
                                                  probe.detectedHz + OctaveCents)]
  /\ UNCHANGED <<appVars, refVars, closureSemitones, initVars, tickVars, probe>>

NextCents == CentsStep

SpecCents == InitCents /\ [][NextCents]_vars

\* The analyzer as it is once the microphone was acquired and the interval
\* registered: initializeMicrophone run to its successful end.
Acquired ==
  attemptSucceeded([initializeMicrophone(Analyzer) EXCEPT
                      !.detector.microphone = TRUE, !.detector.audioContext = TRUE])

InitSnapshot ==
  /\ InitProgram
  /\ \E heard \in DrawnTones \cup {Silence}, t \in 0..actualSongDuration,
        semitones \in {MinTransposition, 0, MaxTransposition} :
       probe = [done |-> TRUE, heard |-> heard, t |-> t, semitones |-> semitones]
  /\ result = Idle

\* One tick of the acquired analyzer on the drawn tone, time and offset.
SnapshotStep ==
  /\ probe.done /\ ~result.done
  /\ result' = [done |-> TRUE,
                out |-> tick(Acquired, now + TickMs, probe.t, probe.semitones,
                             probe.heard).out]
  /\ UNCHANGED <<appVars, refVars, closureSemitones, initVars, tickVars, probe>>

NextSnapshot == SnapshotStep

SpecSnapshot == InitSnapshot /\ [][NextSnapshot]_vars

\* ------------------------------ isOctaveEquivalent on drawn pitches
\* The MIDI pitches 0..127 shifted by up to an octave either way.
DrawnPitches == (0 + MinTransposition)..(127 + MaxTransposition)

InitOctave ==
  /\ InitProgram
  /\ \E midi1 \in DrawnPitches, midi2 \in DrawnPitches :
       probe = [done |-> TRUE, midi1 |-> midi1, midi2 |-> midi2]
  /\ result = Idle

OctaveStep ==
  /\ probe.done /\ ~result.done
  /\ result' = [done |-> TRUE,
                eq |-> isOctaveEquivalent(probe.midi1, probe.midi2),
                swapped |-> isOctaveEquivalent(probe.midi2, probe.midi1),
                self |-> isOctaveEquivalent(probe.midi1, probe.midi1)]
  /\ UNCHANGED <<appVars, refVars, closureSemitones, initVars, tickVars, probe>>

NextOctave == OctaveStep

SpecOctave == InitOctave /\ [][NextOctave]_vars

\* --------------------------------------- transposeNote on drawn inputs
ProbeNotes ==
  [id : {"n1", "n2"}, time : {0, 2}, duration : {1}, pitch : {0, 5, 60, 127},
   name : {"C"}, frequency : {0}, velocity : {0, 100}, lyric : {"la", ""}]

InitNote ==
  /\ InitProgram
  /\ \E note \in ProbeNotes, semitones \in MinTransposition..MaxTransposition :
       probe = [done |-> TRUE, note |-> note, semitones |-> semitones]
  /\ result = Idle

\* transposeNote(note, semitones): the returned copy, and the argument object
\* as the caller finds it after the call (the function assigns nothing to it).
TransposeStep ==
  /\ probe.done /\ ~result.done
  /\ result' = [done |-> TRUE,
                out |-> transposeNote(probe.note, probe.semitones),
                arg |-> probe.note]
  /\ UNCHANGED <<appVars, refVars, closureSemitones, initVars, tickVars, probe>>

NextNote == TransposeStep

SpecNote == InitNote /\ [][NextNote]_vars

\* ------------------------------------------ PitchDetector on drawn windows
\* Amplitudes are carried in hundredths of full scale; CMNDF values, clarity,
\* confidence and the margins in thousandths. A lag is a fraction [n, d] with
\* d > 0 (the parabolic interpolation produces non-integer lags).
yinThreshold == 150
vadRmsThreshold == 1
minFreq == 80
maxFreq == 2000
SubharmonicMargin2 == 15
SubharmonicMargin3 == 20
\* The initial _lastYinMin and yinMin (1.0), and the width of clarity.
One == 1000

\* A float: a finite number, NaN or an infinity.
Num(v) == [finite |-> TRUE, nan |-> FALSE, v |-> v]
NaN == [finite |-> FALSE, nan |-> TRUE, v |-> 0]
Infinity == [finite |-> FALSE, nan |-> FALSE, v |-> 0]
isFinite(x) == x.finite

Frac(n, d) == IF d < 0 THEN [n |-> -n, d |-> -d] ELSE [n |-> n, d |-> d]
Floor(lag) == lag.n \div lag.d

ISqrt(m) == CHOOSE r \in 0..m : r * r <= m /\ (r + 1) * (r + 1) > m

RECURSIVE SumSquares(_, _)
SumSquares(buf, i) ==
  IF i > Len(buf) THEN 0 ELSE buf[i].v * buf[i].v + SumSquares(buf, i + 1)

\* computeRMS: sqrt(sum of squares / length); one NaN sample makes the sum NaN,
\* otherwise one infinite sample makes it infinite.
computeRMS(buf) ==
  IF \E i \in 1..Len(buf) : buf[i].nan THEN NaN
  ELSE IF \E i \in 1..Len(buf) : ~buf[i].finite THEN Infinity
  ELSE Num(ISqrt(SumSquares(buf, 1) \div Len(buf)))

\* The gate that stops a non-finite RMS only and lets every quiet window through.
vadRejectsNonFiniteOnly(rms) == ~isFinite(rms)

\* The VAD gate of detectPitch.
vadRejects(rms) == ~isFinite(rms) \/ rms.v < vadRmsThreshold

\* Step 1: the difference function d(tau) of the window x (x[1] is sample 0).
RECURSIVE difference(_, _, _)
difference(x, tau, i) ==
  IF i + tau > Len(x) THEN 0
  ELSE (x[i].v - x[i + tau].v) * (x[i].v - x[i + tau].v) + difference(x, tau, i + 1)

RECURSIVE runningSumOf(_, _)
runningSumOf(x, tau) ==
  IF tau = 0 THEN 0 ELSE difference(x, tau, 1) + runningSumOf(x, tau - 1)

\* Step 2: the CMNDF written into the reused buffer: entries 0..maxTauClamped
\* are overwritten, the others keep what the buffer held.
cmndf(x, yin, maxTauClamped) ==
  [tau \in DOMAIN yin |->
     IF tau > maxTauClamped THEN yin[tau]
     ELSE IF tau = 0 THEN One
     ELSE IF runningSumOf(x, tau) = 0 THEN 0
     ELSE (difference(x, tau, 1) * tau * One) \div runningSumOf(x, tau)]

\* The threshold search with the local-minimum test left out.
RECURSIVE thresholdSearchFirstBelow(_, _, _, _)
thresholdSearchFirstBelow(yin, tau, maxTauClamped, yinMin) ==
  IF tau > maxTauClamped THEN [tauEstimate |-> -1, yinMin |-> yinMin]
  ELSE IF yin[tau] < yinThreshold /\ yin[tau] <= yinMin
       THEN [tauEstimate |-> tau, yinMin |-> yin[tau]]
       ELSE thresholdSearchFirstBelow(yin, tau + 1, maxTauClamped, Min(yinMin, yin[tau]))

\* Step 3: the loop of the absolute threshold search, from lag tau on.
RECURSIVE thresholdSearch(_, _, _, _)
thresholdSearch(yin, tau, maxTauClamped, yinMin) ==
  IF tau > maxTauClamped THEN [tauEstimate |-> -1, yinMin |-> yinMin]
  ELSE IF /\ yin[tau] < yinThreshold /\ yin[tau] <= yinMin
          /\ tau + 1 <= maxTauClamped /\ yin[tau] <= yin[tau + 1]
       THEN [tauEstimate |-> tau, yinMin |-> yin[tau]]
       ELSE thresholdSearch(yin, tau + 1, maxTauClamped, Min(yinMin, yin[tau]))

\* The fallback loop: the first position of the smallest value; minI = -1
\* stands for minV = Infinity.
RECURSIVE globalMinimum(_, _, _, _, _)
globalMinimum(yin, tau, maxTauClamped, minV, minI) ==
  IF tau > maxTauClamped THEN [minV |-> minV, minI |-> minI]
  ELSE IF minI = -1 \/ yin[tau] < minV
       THEN globalMinimum(yin, tau + 1, maxTauClamped, yin[tau], tau)
       ELSE globalMinimum(yin, tau + 1, maxTauClamped, minV, minI)

\* Steps 3 and the fallback: the integer lag and the recorded minimum.
tauEstimateOf(yin, minTau, maxTauClamped) ==
  LET found == thresholdSearch(yin, Max(2, minTau), maxTauClamped, One)
      least == globalMinimum(yin, Max(2, minTau), maxTauClamped, 0, -1)
  IN  IF found.tauEstimate # -1 THEN [tauEstimate |-> found.tauEstimate,
                                      yinMin |-> found.yinMin, fallback |-> FALSE]
      ELSE [tauEstimate |-> least.minI,
            yinMin |-> IF least.minI = -1 THEN One ELSE least.minV,
            fallback |-> TRUE]

\* Step 4: parabolic interpolation around tauEstimate.
betterTauOf(yin, tauEstimate, maxTauClamped) ==
  IF tauEstimate > 1 /\ tauEstimate < maxTauClamped
  THEN LET x0 == yin[tauEstimate - 1]
           x1 == yin[tauEstimate]
           x2 == yin[tauEstimate + 1]
           denom == 2 * (2 * x1 - x0 - x2)
       IN  IF denom # 0 THEN Frac(tauEstimate * denom + (x2 - x0), denom)
           ELSE Frac(tauEstimate, 1)
  ELSE Frac(tauEstimate, 1)

\* The linear interpolation of the CMNDF at a fractional lag, times lag.d;
\* a read outside the buffer is undefined and makes the value NaN.
interpolated(yin, lag, maxTauClamped) ==
  LET i == Floor(lag)
      frac == lag.n - i * lag.d
  IN  IF i \notin DOMAIN yin THEN NaN
      ELSE LET yA == yin[i]
               yB == IF i + 1 <= maxTauClamped THEN yin[i + 1] ELSE yA
           IN  Num(yA * lag.d + (yB - yA) * frac)

\* checkAndMaybeReplace(mult, margin): whether finalTau becomes betterTau * mult.
replaces(yin, betterTau, maxTauClamped, mult, margin) ==
  LET tau2 == [n |-> betterTau.n * mult, d |-> betterTau.d]
      yTau2 == interpolated(yin, tau2, maxTauClamped)
      yTau == interpolated(yin, betterTau, maxTauClamped)
  IN  /\ tau2.n <= maxTauClamped * tau2.d
      /\ isFinite(yTau2) /\ isFinite(yTau)
      /\ yTau2.v + margin * betterTau.d < yTau.v


\* Steps 3 to 5 of yinDetectFrequency on the CMNDF in the buffer: the returned
\* lag (frequency = sampleRate / finalTau; nan: NaN is returned) and the
\* _lastYinMin it records. mult is the multiple of betterTau that finalTau is.
yinSearch(yin, minTau, maxTauClamped) ==
  LET est == tauEstimateOf(yin, minTau, maxTauClamped)
      betterTau == betterTauOf(yin, est.tauEstimate, maxTauClamped)
      mult == IF replaces(yin, betterTau, maxTauClamped, 3, SubharmonicMargin3) THEN 3
              ELSE IF replaces(yin, betterTau, maxTauClamped, 2, SubharmonicMargin2) THEN 2
              ELSE 1
  IN  IF est.tauEstimate <= 0
      THEN [nan |-> TRUE, tauEstimate |-> est.tauEstimate, fallback |-> TRUE,
            betterTau |-> Frac(0, 1), mult |-> 1, finalTau |-> Frac(0, 1),
            lastYinMin |-> One]
      ELSE [nan |-> FALSE, tauEstimate |-> est.tauEstimate, fallback |-> est.fallback,
            betterTau |-> betterTau, mult |-> mult,
            finalTau |-> [n |-> betterTau.n * mult, d |-> betterTau.d],
            lastYinMin |-> est.yinMin]

\* yinDetectFrequency(x, yin, minTau, maxTau, sampleRate): the buffer after
\* steps 1 and 2, and the search on it.
yinDetectFrequency(x, yin, minTau, maxTau) ==
  LET maxTauClamped == Min(maxTau, Len(x) - 1)
      filled == cmndf(x, yin, maxTauClamped)
  IN  [yin |-> filled, found |-> yinSearch(filled, minTau, maxTauClamped)]

Clamp01(v) == Max(0, Min(One, v))

NoPitch == [found |-> FALSE, finalTau |-> Frac(0, 1), clarity |-> 0, confidence |-> 0]

\* detectPitch() of an initialized detector d = [timeData, yinBuffer, lastYinMin]
\* whose analyser delivers the window: the result and the detector afterwards.
\* The result carries the lag in place of the frequency sampleRate / finalTau.
detectPitchWindow(d, window, sampleRate) ==
  LET rms == computeRMS(window)
      minTau == Max(2, sampleRate \div maxFreq)
      maxTau == Min(Len(window) - 1, sampleRate \div minFreq)
      y == yinDetectFrequency(window, d.yinBuffer, minTau, maxTau)
      tau == y.found.finalTau
      ran == [d EXCEPT !.timeData = window, !.yinBuffer = y.yin,
                       !.lastYinMin = y.found.lastYinMin]
      clarity == Clamp01(One - y.found.lastYinMin)
  IN  IF vadRejects(rms)
      THEN [out |-> NoPitch, d |-> [d EXCEPT !.timeData = window]]
      ELSE IF \/ y.found.nan \/ tau.n <= 0
              \/ sampleRate * tau.d < minFreq * tau.n
              \/ sampleRate * tau.d > maxFreq * tau.n
      THEN [out |-> NoPitch, d |-> ran]
      ELSE [out |-> [found |-> TRUE, finalTau |-> tau, clarity |-> clarity,
                     confidence |-> Clamp01((clarity + Min(One, rms.v * 100)) \div 2)],
            d |-> ran]

\* A detector right after initialize(): zeroed Float32Arrays, _lastYinMin = 1.
FreshDetector(len) ==
  [timeData |-> [i \in 1..len |-> Num(0)], yinBuffer |-> [tau \in 0..(len - 1) |-> 0],
   lastYinMin |-> One]

\* ---------------------------------------------- detectPitch on drawn windows
\* The window length that stands for the analyser's 4096 samples, with sample
\* rates scaled down so that the searched lags (2 and up) lie in the window.
WindowLen == 5
SampleRates == {4000, 6000}
DrawnSamples == {Num(0), Num(1), Num(60), NaN, Infinity}
\* Windows analysed before the drawn one (the detector's retained state).
PriorWindows ==
  { [i \in 1..WindowLen |-> Num(0)],
    [i \in 1..WindowLen |-> IF i % 2 = 0 THEN Num(60) ELSE Num(-60)],
    [i \in 1..WindowLen |-> IF i % 3 = 0 THEN Num(60) ELSE Num(1)] }

InitVad ==
  /\ InitProgram
  /\ \E window \in [1..WindowLen -> DrawnSamples], sampleRate \in SampleRates,
        prior \in PriorWindows :
       probe = [done |-> TRUE, window |-> window, sampleRate |-> sampleRate,
                d |-> detectPitchWindow(FreshDetector(WindowLen), prior, sampleRate).d]
  /\ result = Idle

VadStep ==
  /\ probe.done /\ ~result.done
  /\ LET r == detectPitchWindow(probe.d, probe.window, probe.sampleRate)
     IN  result' = [done |-> TRUE, out |-> r.out, d |-> r.d]
  /\ UNCHANGED <<appVars, refVars, closureSemitones, initVars, tickVars, probe>>

NextVad == VadStep

SpecVad == InitVad /\ [][NextVad]_vars

\* ------------------------------------------ the lag search on drawn CMNDFs
\* The last index of the drawn CMNDF buffers.
YinLags == 6
CmndfValues == {0, 60, 100, 140, 200}

InitYin ==
  /\ InitProgram
  /\ \E body \in [1..YinLags -> CmndfValues], minTau \in {0, 3},
        maxTauClamped \in (YinLags - 1)..YinLags :
       probe = [done |-> TRUE, minTau |-> minTau, maxTauClamped |-> maxTauClamped,
                yin |-> [tau \in 0..YinLags |->
                           IF tau = 0 THEN One
                           ELSE IF tau > maxTauClamped THEN 0 ELSE body[tau]]]
  /\ result = Idle

YinStep ==
  /\ probe.done /\ ~result.done
  /\ result' = [done |-> TRUE,
                found |-> yinSearch(probe.yin, probe.minTau, probe.maxTauClamped)]
  /\ UNCHANGED <<appVars, refVars, closureSemitones, initVars, tickVars, probe>>

NextYin == YinStep

SpecYin == InitYin /\ [][NextYin]_vars

\* ================================================================ claims

\* The reference note of the song with the given id.
SongNote(id) == CHOOSE n \in {SongNotes[i] : i \in 1..Len(SongNotes)} : n.id = id

\* A step is a tick exactly when the wall clock moves.
TickRan == now' # now

C2_StoppedHoldsNothing ==
  (~isPlaying /\ ~isInitializingRef) =>
    /\ ~analysisIntervalRef
    /\ ~pitchDetectorRef
    /\ ~detector.microphone /\ ~detector.audioContext

\* C3: a session makes at most 3 attempts, none after a success or after the
\* third failure, and waits 100 ms * k after failed attempt k for k = 1, 2 only.
C3_BoundedRetries ==
  /\ attempt <= 3
  /\ Len(attemptErrors) <= 3
  /\ Len(waits) = (IF Len(attemptErrors) < 2 THEN Len(attemptErrors) ELSE 2)
  /\ \A k \in 1..Len(waits) : waits[k] = 100 * k
  /\ initPc \in {"getUserMedia", "resume", "succeeded"} => attempt = Len(attemptErrors) + 1
  /\ initPc = "retryDelay" => attempt = Len(attemptErrors) /\ attempt < 3
  /\ initPc = "failed" => attempt = 3 /\ Len(attemptErrors) = 3

\* C3 witness: a session that failed three times, having waited 100 and 200 ms.
C3_Witness == initPc = "failed" /\ waits = <<100, 200>> /\ attempt = 3

\* C4: after three failed attempts the published state carries the third
\* attempt's error with isEnabled and hasPermission false, and no detector,
\* stream, audio context or tick timer is held.
C4_FailedKeepsNothing ==
  initPc = "failed" =>
    /\ Len(attemptErrors) = 3
    /\ microphone.error = attemptErrors[3].message
    /\ ~microphone.isEnabled /\ ~microphone.hasPermission
    /\ ~pitchDetectorRef
    /\ ~detector.microphone /\ ~detector.audioContext /\ ~detector.isInitialized
    /\ ~analysisIntervalRef

\* C4 witness: a failed session whose third error differs from its first.
C4_Witness ==
  /\ initPc = "failed"
  /\ Len(attemptErrors) = 3
  /\ attemptErrors[3] # attemptErrors[1]
  /\ microphone.error = attemptErrors[3].message

\* Whether t lies in the note's [start, start + duration].
Covers(note, t) == t >= note.time /\ t <= note.time + note.duration

NonOverlapping(notes) ==
  \A i \in 1..(Len(notes) - 1) : notes[i].time + notes[i].duration <= notes[i + 1].time

\* C5: for a list ordered by start time with non-overlapping intervals, any
\* stored cursor in range and any t inside some note, the tracker step ends
\* with the cursor on a note covering t and reports it as the active target.
C5_TrackerFindsCoveringNote ==
  (/\ result.done
   /\ NonOverlapping(probe.notes)
   /\ \E k \in 1..Len(probe.notes) : Covers(probe.notes[k], probe.t))
  => /\ ~result.tr.threw
     /\ result.tr.idx < Len(probe.notes)
     /\ Covers(probe.notes[result.tr.idx + 1], probe.t)
     /\ result.tr.targetNote.id = probe.notes[result.tr.idx + 1].id

\* C5 witness: a backward seek onto the boundary shared by two notes, from a
\* cursor two notes further on.
C5_Witness ==
  /\ result.done
  /\ NonOverlapping(probe.notes)
  /\ Len(probe.notes) = 3
  /\ probe.idx = 2
  /\ result.tr.idx = 1
  /\ Covers(probe.notes[1], probe.t) /\ Covers(probe.notes[2], probe.t)

\* C6: on a tick at a playback time past the end of the last note the tracker
\* resolves to no active target with the last note as candidate, and the tick
\* goes on (it builds its snapshot).
C6_PastEndResolves ==
  [][(TickRan /\ pitchDetectorRef /\ currentTimeRef > LastEnd(SongNotes, Len(SongNotes)))
       => /\ lastTick'.outcome \in {"pitch", "silent"}
          /\ lastTick'.target = Null
          /\ lastTick'.candidate = SongNotes[Len(SongNotes)].id]_vars

\* C7: after every tick on which the tracker reports no active target the
\* note-hit guard holds no id, with or without a detected pitch.
C7_GuardClearedOffNote ==
  (lastTick.outcome \in {"pitch", "silent"} /\ lastTick.target = Null)
    => lastHitNoteIdRef = Null

\* C8 (as stated): after a hit for N1, once the tracker has been on another
\* note N2 and is back in N1, the next on-pitch tick in N1 emits a hit for N1.
C8_RehitAfterOtherNote ==
  [][\A n \in NoteIds :
       (TickRan /\ visit[n] \in {"away", "awayHit"}
          /\ lastTick'.target = n /\ lastTick'.isOnPitch)
       => lastTick'.hit = n]_vars

\* C8 (amended): after a hit for N1, once a hit for another note N2 has been
\* emitted and the tracker is back in N1, the next on-pitch tick in N1 emits
\* a second hit for N1.
C8_RehitAfterOtherHit ==
  [][\A n \in NoteIds :
       (TickRan /\ visit[n] = "awayHit"
          /\ lastTick'.target = n /\ lastTick'.isOnPitch)
       => lastTick'.hit = n]_vars

\* C8 witness: a second hit for a note after a hit for the other note.
C8_Witness == \E n \in NoteIds : visit[n] = "rehit" /\ lastTick.hit = n

\* C9: on every tick with an active target, the target handed on has the
\* reference note's pitch plus the transposition offset configured then.
C9_TargetUsesCurrentOffset ==
  [][(TickRan /\ lastTick'.outcome = "pitch" /\ lastTick'.target # Null)
       => lastTick'.targetPitch
            = SongNote(lastTick'.target).pitch + transpositionSemitones]_vars

\* C10: transposeNote(note, s), s in -12..12, returns a copy with the same id,
\* time, duration, velocity and lyric and pitch + s; the input is unchanged.
C10_TransposeKeepsIdentity ==
  result.done =>
    /\ probe.semitones \in -12..12
    /\ result.out.id = probe.note.id
    /\ result.out.time = probe.note.time
    /\ result.out.duration = probe.note.duration
    /\ result.out.velocity = probe.note.velocity
    /\ result.out.lyric = probe.note.lyric
    /\ result.out.pitch = probe.note.pitch + probe.semitones
    /\ result.arg = probe.note

\* C10 witness: a transposition by -12 that takes the pitch below zero.
C10_Witness ==
  /\ result.done
  /\ probe.semitones = -12
  /\ result.out.pitch < 0
  /\ result.out.id = probe.note.id

\* C11: between two successive live-snapshot emissions at least 66 ms elapse,
\* whether the emitting ticks detected a pitch or not.
C11_SnapshotsThrottled ==
  [][(TickRan /\ lastTick'.published /\ sink.snapshotAt # 0)
       => now' - sink.snapshotAt >= UI_UPDATE_MS]_vars

\* C11 witness: a tick that came 30 ms after an emission kept its snapshot back.
C11_Witness ==
  /\ lastTick.outcome \in {"pitch", "silent"}
  /\ ~lastTick.published
  /\ sink.snapshotAt # 0
  /\ now - sink.snapshotAt < UI_UPDATE_MS

\* C12: between two successive history flushes at least 100 ms elapse.
C12_FlushesThrottled ==
  [][(TickRan /\ lastTick'.flushed # << >> /\ sink.flushAt # 0)
       => now' - sink.flushAt >= HISTORY_FLUSH_MS]_vars

\* Whether the points of a batch are in the order the ticks produced them,
\* all produced after the instant `after`.
InTickOrder(batch, after) ==
  /\ \A i \in 1..Len(batch) : batch[i].at > after
  /\ \A i \in 1..(Len(batch) - 1) : batch[i].at < batch[i + 1].at

\* C13 (as stated): each flush delivers exactly the points buffered since the
\* previous flush, in tick order, and leaves the buffer empty.
C13_FlushDeliversAllSinceFlush ==
  [][(TickRan /\ lastTick'.flushed # << >>)
       => /\ Len(lastTick'.flushed) = sink.pushed + 1
          /\ InTickOrder(lastTick'.flushed, sink.flushAt)
          /\ historyBufferRef' = << >>]_vars

\* C13 (amended): each flush delivers exactly the points buffered since the
\* previous flush or release of the microphone, whichever is later, in tick
\* order, ending with the flushing tick's own point, and leaves the buffer
\* empty; no point is delivered twice.
C13_FlushDeliversBuffer ==
  [][(TickRan /\ lastTick'.flushed # << >>)
       => LET batch == lastTick'.flushed
          IN /\ Len(batch) = sink.kept + 1
             /\ SubSeq(batch, 1, Len(batch) - 1) = historyBufferRef
             /\ batch[Len(batch)].at = now'
             /\ InTickOrder(batch, sink.flushAt)
             /\ historyBufferRef' = << >>]_vars

\* C13 witness: a flush that delivered two points, the older one buffered by
\* an earlier tick.
C13_Witness ==
  /\ Len(lastTick.flushed) = 2
  /\ lastTick.flushed[1].at < now
  /\ historyBufferRef = << >>

\* Whether an initializeMicrophone run is suspended at one of its awaits.
AcquisitionPending == initPc \in {"getUserMedia", "resume", "retryDelay"}

\* C14: after the component was unmounted, once a pending acquisition has
\* settled, no tick timer is registered and no capture device is held.
C14_UnmountedHoldsNothing ==
  (~mounted /\ ~AcquisitionPending)
    => /\ ~analysisIntervalRef
       /\ timers = 0
       /\ ~pitchDetectorRef
       /\ ~detector.microphone

\* C15: under any interleaving of play, stop, mute, unmute and acquisition
\* success or failure, at most one tick timer is registered and at most one
\* detector is held or being acquired.
C15_OneTimerOneDetector ==
  /\ timers <= 1
  /\ acquiring + (IF pitchDetectorRef THEN 1 ELSE 0) <= 1
  /\ analysisIntervalRef <=> timers = 1

\* C15 witness: an acquisition that needed a retry has succeeded and its
\* timer runs.
C15_Witness ==
  /\ isPlaying /\ mounted
  /\ Len(attemptErrors) >= 1
  /\ pitchDetectorRef /\ analysisIntervalRef
  /\ timers = 1 /\ acquiring = 0

\* C16: a tick that throws leaves the timer registered and the lifecycle
\* state (detector held, isRecording) unchanged, and later ticks still run.
C16_ThrowKeepsTimer ==
  [][(TickRan /\ lastTick'.outcome = "threw")
       => /\ analysisIntervalRef' /\ timers' = timers
          /\ timerDue' = timerDue + TickMs
          /\ pitchDetectorRef' /\ detector' = detector
          /\ microphone' = microphone]_vars

\* C16 witness: the second tick of a session threw, late; the interval is
\* still registered and due one period after its nominal time.
C16_Witness ==
  /\ lastTick.outcome = "threw"
  /\ now = Epoch + 2 * TickMs + MaxLate
  /\ analysisIntervalRef /\ timerDue = Epoch + 3 * TickMs
  /\ pitchDetectorRef /\ microphone.isRecording

\* A cursor tick that follows an earlier tick at a playback time not before it.
ForwardTick == result.done /\ result'.t >= result.t /\ ~result'.released

\* C17 (as stated): over ticks with non-decreasing playback times the stored
\* cursor never decreases from one tick to the next.
C17_CursorMonotone ==
  [][ForwardTick => result'.ticked >= result.ticked]_vars

\* C17 (amended): the same, for two ticks between which the microphone is
\* not released.
C17_CursorMonotoneInSession ==
  [][(ForwardTick /\ ~result.released) => result'.ticked >= result.ticked]_vars

\* C17 witness: three notes, the latest forward tick stored the last one.
C17_Witness ==
  /\ result.done /\ ~result.released
  /\ Len(probe.notes) = 3
  /\ result.ticked = 2
  /\ result.t = probe.notes[3].time

\* C18: centsToNearestOctave is periodic in the octave: one octave more of
\* raw deviation (the detected frequency doubled) gives the same result.
C18_WrapPeriodic == result.done => result.octaveUp = result.cents

\* C19: every snapshot a tick builds has its deviation in [-600, 600] and
\* its accuracy in [0, 1] (accuracy is carried in 1200ths).
C19_SnapshotInRange ==
  (result.done /\ result.out.outcome \in {"pitch", "silent"})
    => /\ result.out.deviation >= -HalfOctaveCents
       /\ result.out.deviation <= HalfOctaveCents
       /\ result.out.accuracy >= 0
       /\ result.out.accuracy <= OctaveCents

\* C19 witness: a tone more than an octave above the target, wrapped.
C19_Witness ==
  /\ result.done
  /\ result.out.outcome = "pitch" /\ result.out.target # Null
  /\ probe.heard - midiToFrequency(result.out.targetPitch) > OctaveCents
  /\ result.out.deviation < 0

\* C20: isOctaveEquivalent(a, b) holds exactly when a and b have the same
\* pitch class (a mod 12 = b mod 12, the mathematical modulus), negative
\* pitches included; it is symmetric and reflexive.
C20_OctaveEquivalentIsPitchClass ==
  result.done =>
    /\ result.eq <=> (probe.midi1 % 12 = probe.midi2 % 12)
    /\ result.eq <=> result.swapped
    /\ result.self

\* The windows the voice-activity gate is to reject: a non-finite sample (the
\* RMS is then NaN or infinite) or a mean square below the threshold squared.
GatedWindow(w) ==
  \/ \E i \in 1..Len(w) : ~w[i].finite
  \/ SumSquares(w, 1) < Len(w) * vadRmsThreshold * vadRmsThreshold

\* C21: detectPitch returns null for every window whose RMS is non-finite or
\* below 0.01, the all-zero window included, and the estimator does not run:
\* the CMNDF buffer and _lastYinMin stay what the detector retained.
C21_GateShortCircuits ==
  (result.done /\ GatedWindow(probe.window))
    => /\ ~result.out.found
       /\ result.d.yinBuffer = probe.d.yinBuffer
       /\ result.d.lastYinMin = probe.d.lastYinMin

\* C21 witness: a quiet but not silent window, gated on a detector that
\* retains the CMNDF and the minimum of an earlier analysis.
C21_Witness ==
  /\ result.done /\ GatedWindow(probe.window)
  /\ \A i \in 1..WindowLen : probe.window[i].finite
  /\ \E i \in 1..WindowLen : probe.window[i].v # 0
  /\ probe.d.lastYinMin # One
  /\ probe.d.yinBuffer # FreshDetector(WindowLen).yinBuffer
  /\ ~result.out.found

\* The lags of the search range the threshold search is to accept.
AcceptedLags(yin, minTau, maxTau) ==
  {tau \in Max(2, minTau)..maxTau :
     /\ yin[tau] < yinThreshold
     /\ tau + 1 \in DOMAIN yin
     /\ yin[tau] <= yin[tau + 1]}

LeastOf(S) == CHOOSE x \in S : \A y \in S : x <= y

\* C23: the integer lag is the first lag tau >= max(2, minTau) with
\* CMNDF[tau] < 0.15 and CMNDF[tau] <= CMNDF[tau+1]; when there is none it is
\* the position of the global minimum of the CMNDF over the search range.
C23_LagIsFirstAcceptedOrMinimum ==
  (result.done /\ Max(2, probe.minTau) <= probe.maxTauClamped)
    => LET range == Max(2, probe.minTau)..probe.maxTauClamped
           accepted == AcceptedLags(probe.yin, probe.minTau, probe.maxTauClamped)
           lag == result.found.tauEstimate
       IN  IF accepted # {} THEN lag = LeastOf(accepted)
           ELSE /\ lag \in range
                /\ \A tau \in range : probe.yin[lag] <= probe.yin[tau]

\* C23 witness: the accepted lag comes after a lag that is below the
\* threshold but still descending.
C23_Witness ==
  /\ result.done /\ ~result.found.fallback
  /\ \E tau \in Max(2, probe.minTau)..(result.found.tauEstimate - 1) :
       probe.yin[tau] < yinThreshold

\* C24: the recorded CMNDF minimum (the basis of clarity and confidence) is
\* the CMNDF value at the lag finally used, also after a subharmonic
\* replacement: it lies between the CMNDF values at the integer lags around
\* finalTau. Stated for the searches whose interpolated lag stays within one
\* lag of the integer estimate.
C24_RecordedAtFinalLag ==
  (/\ result.done /\ ~result.found.nan
   /\ Abs(result.found.betterTau.n - result.found.tauEstimate * result.found.betterTau.d)
        < result.found.betterTau.d
   /\ result.found.finalTau.n >= 0
   /\ Floor(result.found.finalTau) + 1 <= probe.maxTauClamped)
    => LET i == Floor(result.found.finalTau)
           a == probe.yin[i]
           b == probe.yin[i + 1]
       IN  /\ result.found.lastYinMin >= Min(a, b)
           /\ result.found.lastYinMin <= Max(a, b)

\* C25: a registered tick timer, and a reported isRecording = true, imply that
\* an initialized detector is held ("Active but no device" is unreachable).
C25_ActiveHoldsDevice ==
  (timers > 0 \/ analysisIntervalRef \/ microphone.isRecording)
    => (pitchDetectorRef /\ detector.isInitialized /\ detector.microphone)

\* C25 witness: analysing on a detector that was acquired after a failed
\* attempt.
C25_Witness ==
  /\ timers = 1 /\ microphone.isRecording
  /\ attemptErrors # << >>
  /\ pitchDetectorRef /\ detector.isInitialized

\* C26: while the microphone is muted and no acquisition is in flight, no tick
\* runs (no snapshot, history point or note hit is produced).
C26_MutedNoTick ==
  [][(microphone.isMuted /\ acquiring = 0) => ~TickRan]_vars

\* The timeline's linear search (Array.prototype.find): the first note whose
\* [time, time + duration] contains t, or none.
findActiveNote(notes, t) ==
  LET hits == {k \in 1..Len(notes) :
                 t >= notes[k].time /\ t <= notes[k].time + notes[k].duration}
  IN  IF hits = {} THEN NoNote
      ELSE notes[CHOOSE k \in hits : \A j \in hits : k <= j]

\* C27: for the same note list and playback time, the tracker's active target
\* is the note the timeline's linear search selects (or none), whatever cursor
\* the tick started from, the boundary shared by two adjacent notes included.
\* Stated for lists ordered by start time without overlap.
C27_TrackerMatchesLinearSearch ==
  (result.done /\ NonOverlapping(probe.notes))
    => /\ ~result.tr.threw
       /\ result.tr.targetNote.id = findActiveNote(probe.notes, probe.t).id

\* C28: while the analysis keeps ticking, every history point placed in the
\* buffer is eventually delivered to the sink (the buffer is flushed), also
\* when no pitch is detected on any later tick.
C28_BufferedEventuallyDelivered ==
  (historyBufferRef # << >>) ~> (historyBufferRef = << >> \/ ~analysisIntervalRef)

\* C29: with ticks 80 ms apart the history buffer holds at most 1 point at
\* the end of any tick and never more than 2 (the batch a flush delivers is
\* the buffer at its fullest), over any pitch / no-pitch ticks, mutes, unmutes.
C29_BufferBounded ==
  /\ Len(historyBufferRef) <= 1
  /\ Len(lastTick.flushed) <= 2

\* C29 witness: a flush delivers two points, the older one buffered more than
\* one period before the newer one.
C29_Witness ==
  /\ Len(lastTick.flushed) = 2
  /\ lastTick.flushed[2].at - lastTick.flushed[1].at > TickMs
  /\ historyBufferRef = << >>

\* C30: when a song completes, 0 <= correctNotes <= totalNotes: every note id
\* of the current song counts at most once, and hits recorded before the
\* current run started do not count.
C30_ResultsBounded ==
  result.results.completed
    => /\ result.results.correctNotes >= 0
       /\ result.results.correctNotes <= result.results.totalNotes

====
